---- MODULE Spec2Model ----
(***************************************************************************)
(* A model of LinkUp (package linkup): the tree of fsEntity values built   *)
(* by AddFile / AddDocument / AddDocumentFromReader, the path resolver     *)
(* isPathValid, and the link validator Validate.                           *)
(*                                                                         *)
(* Go strings are sequences of one-character strings, so that Split,       *)
(* TrimSpace, HasPrefix and LastIndex are computed character by character. *)
(* The tree is a sequence of entity records; an entity is referred to by   *)
(* its index (the order of allocation), the root is entity 1 and the nil   *)
(* pointer is 0.                                                           *)
(***************************************************************************)
EXTENDS Integers, Sequences, FiniteSets, Bags, TLC

VARIABLES tree, prev, last, registered, result

vars == <<tree, prev, last, registered, result>>

\* ------------------------------------------------------------------ bounds

\* The largest number of entities (root included) a run of SpecTree allocates.
MaxEntities == 3

\* The largest number of references one entity comes to hold.
MaxHrefs == 7

\* ----------------------------------------------------------------- strings

Nil == 0

Root == 1

EmptyMap == [x \in {} |-> 0]

\* s[from..] of Go, from counted from 0.
SliceFrom(s, from) == SubSeq(s, from + 1, Len(s))

\* s[:to] of Go, to counted from 0.
SliceTo(s, to) == SubSeq(s, 1, to)

HasPrefix(s, p) == Len(s) >= Len(p) /\ SubSeq(s, 1, Len(p)) = p

\* strings.LastIndex(s, c) for a one-character c: 0-based, -1 when absent.
LastIndex(s, c) ==
  LET hits == {i \in 1..Len(s) : s[i] = c}
  IN  IF hits = {} THEN -1
      ELSE (CHOOSE i \in hits : \A j \in hits : j <= i) - 1

\* strings.Index(s, c) for a one-character c: 0-based, -1 when absent.
Index(s, c) ==
  LET hits == {i \in 1..Len(s) : s[i] = c}
  IN  IF hits = {} THEN -1
      ELSE (CHOOSE i \in hits : \A j \in hits : i <= j) - 1

\* strings.Split(s, c) for a one-character c: never empty, and the pieces
\* between two separators, before the first and after the last are kept.
RECURSIVE Split(_, _)
Split(s, c) ==
  LET i == Index(s, c)
  IN  IF i < 0 THEN <<s>>
      ELSE <<SliceTo(s, i)>> \o Split(SliceFrom(s, i + 1), c)

WhiteSpace == {" ", "\t", "\n", "\r"}

RECURSIVE TrimLeft(_)
TrimLeft(s) ==
  IF s # <<>> /\ Head(s) \in WhiteSpace THEN TrimLeft(Tail(s)) ELSE s

RECURSIVE TrimRight(_)
TrimRight(s) ==
  IF s # <<>> /\ s[Len(s)] \in WhiteSpace
  THEN TrimRight(SliceTo(s, Len(s) - 1)) ELSE s

TrimSpace(s) == TrimRight(TrimLeft(s))

\* strings.Replace(s, "\\", "/", -1)
ReplaceBackslash(s) == [i \in 1..Len(s) |-> IF s[i] = "\\" THEN "/" ELSE s[i]]

\* ------------------------------------------------------------ path helpers

splitPath(path) ==
  LET components == Split(path, "/")
      keep == SelectSeq(components, LAMBDA c : Len(c) > 0)
  IN  keep

prepareFileName(name) ==
  IF HasPrefix(name, <<"/">>) THEN SliceFrom(name, 1) ELSE name

\* -------------------------------------------------------------------- tree

allocateFSEntity(name) ==
  [name |-> name, fullname |-> <<>>, directory |-> FALSE,
   children |-> EmptyMap, parent |-> Nil, ids |-> EmptyMap, hrefs |-> <<>>]

RECURSIVE calcFullNameFrom(_, _, _)
calcFullNameFrom(t, current, fullname) ==
  IF current # Nil /\ t[current].parent # Nil
  THEN calcFullNameFrom(t, t[current].parent,
         IF Len(fullname) = 0 THEN t[current].name
         ELSE t[current].name \o <<"/">> \o fullname)
  ELSE fullname

calcFullName(t, entity) == calcFullNameFrom(t, entity, <<>>)

\* The tree after the allocation of a child of parent named name.
Attach(t, parent, name) ==
  LET id == Len(t) + 1
      t0 == Append(t, [allocateFSEntity(name) EXCEPT !.parent = parent])
      t1 == [t0 EXCEPT ![id].fullname = calcFullName(t0, id)]
  IN  [t1 EXCEPT ![parent].children = (name :> id) @@ @]

RECURSIVE createFSEntityMutThroughLeaf(_, _, _)
createFSEntityMutThroughLeaf(t, parent, components) ==
  IF Len(components) = 0 THEN [t |-> t, ent |-> parent]
  ELSE IF Head(components) \in DOMAIN t[parent].children
       THEN createFSEntityMutThroughLeaf(t,
              t[parent].children[Head(components)], Tail(components))
       ELSE LET id == Len(t) + 1
                t1 == Attach(t, parent, Head(components))
            IN  IF Len(components) > 1
                THEN createFSEntityMutThroughLeaf(
                       [t1 EXCEPT ![id].directory = TRUE], id, Tail(components))
                ELSE [t |-> t1, ent |-> id]

\* The tree after the call and the entity returned (Nil for nil).
RECURSIVE createFSEntity(_, _, _)
createFSEntity(t, parent, components) ==
  IF Len(components) = 0 THEN [t |-> t, ent |-> parent]
  ELSE IF t[parent].directory
       THEN IF Head(components) \in DOMAIN t[parent].children
            THEN createFSEntity(t, t[parent].children[Head(components)],
                                Tail(components))
            ELSE LET id == Len(t) + 1
                     t1 == Attach(t, parent, Head(components))
                 IN  IF Len(components) > 1
                     THEN createFSEntity([t1 EXCEPT ![id].directory = TRUE],
                                         id, Tail(components))
                     ELSE [t |-> t1, ent |-> id]
       ELSE [t |-> t, ent |-> Nil]

newFSEntity(t, path) == createFSEntity(t, Root, Split(path, "/"))

\* The tree New() builds: the root directory "/".
New == <<[allocateFSEntity(<<"/">>) EXCEPT !.directory = TRUE]>>

\* ---------------------------------------------------------------- resolver

sDotDot == <<".", ".">>

sIndexHtml == <<"i", "n", "d", "e", "x", ".", "h", "t", "m", "l">>

sIndexHtm == <<"i", "n", "d", "e", "x", ".", "h", "t", "m">>

sIndexTmpl == <<"i", "n", "d", "e", "x", ".", "t", "m", "p", "l">>

IndexNames == <<sIndexHtml, sIndexHtm, sIndexTmpl>>

\* The loop with the last index name that is a child winning.
RECURSIVE firstIndexMutLast(_, _)
firstIndexMutLast(children, names) ==
  IF names = <<>> THEN Nil
  ELSE IF names[Len(names)] \in DOMAIN children
       THEN children[names[Len(names)]]
       ELSE firstIndexMutLast(children, SubSeq(names, 1, Len(names) - 1))

\* The loop over the index names: the first that is a child, or nil.
RECURSIVE firstIndex(_, _)
firstIndex(children, names) ==
  IF names = <<>> THEN Nil
  ELSE IF Head(names) \in DOMAIN children THEN children[Head(names)]
       ELSE firstIndex(children, Tail(names))

\* isPathValid with ".." from the root staying at the root.
RECURSIVE isPathValidMutClamp(_, _, _)
isPathValidMutClamp(t, entity, components) ==
  IF entity = Nil THEN Nil
  ELSE IF Len(components) = 0
       THEN IF t[entity].directory
            THEN firstIndex(t[entity].children, IndexNames)
            ELSE entity
       ELSE IF Head(components) = sDotDot
            THEN isPathValidMutClamp(t,
                   IF t[entity].parent = Nil THEN entity ELSE t[entity].parent,
                   Tail(components))
            ELSE IF Head(components) \in DOMAIN t[entity].children
                 THEN isPathValidMutClamp(t,
                        t[entity].children[Head(components)], Tail(components))
                 ELSE Nil

RECURSIVE isPathValid(_, _, _)
isPathValid(t, entity, components) ==
  IF entity = Nil THEN Nil
  ELSE IF Len(components) = 0
       THEN IF t[entity].directory
            THEN firstIndex(t[entity].children, IndexNames)
            ELSE entity
       ELSE IF Head(components) = sDotDot
            THEN isPathValid(t, t[entity].parent, Tail(components))
            ELSE IF Head(components) \in DOMAIN t[entity].children
                 THEN isPathValid(t, t[entity].children[Head(components)],
                                  Tail(components))
                 ELSE Nil

\* --------------------------------------------------------------- extractor

\* A parsed document is the sequence of its elements in document order (the
\* order visitNode reaches them); an element is its tag and attributes.
Elem(tag, attrs) == [tag |-> tag, attrs |-> attrs]

ToLower(tag) ==
  CASE tag = "A" -> "a"
    [] tag = "IMG" -> "img"
    [] OTHER -> tag

\* The references one srcset attribute adds.
RECURSIVE srcsetRefs(_)
srcsetRefs(images) ==
  IF images = <<>> THEN <<>>
  ELSE LET image == Head(images)
           index == LastIndex(image, " ")
       IN  <<IF index < 0 THEN image ELSE SliceTo(image, index)>>
           \o srcsetRefs(Tail(images))

\* The entity after visitNode has seen one element.
visitNode(ent, s) ==
  LET tag == ToLower(s.tag)
      has(a) == a \in DOMAIN s.attrs
      refs ==
        IF tag \in {"a", "link"}
        THEN IF has("href") THEN <<s.attrs["href"]>> ELSE <<>>
        ELSE IF tag \in {"script", "img", "source"}
             THEN (IF has("src") THEN <<s.attrs["src"]>> ELSE <<>>)
                  \o (IF has("srcset")
                      THEN srcsetRefs(Split(s.attrs["srcset"], ","))
                      ELSE <<>>)
             ELSE <<>>
      e1 == [ent EXCEPT !.hrefs = @ \o refs]
  IN  IF has("id")
      THEN LET id == s.attrs["id"]
           IN  [e1 EXCEPT !.ids =
                  IF id \in DOMAIN @ THEN [@ EXCEPT ![id] = @ + 1]
                  ELSE (id :> 1) @@ @]
      ELSE e1

RECURSIVE visitAll(_, _)
visitAll(ent, elems) ==
  IF elems = <<>> THEN ent
  ELSE visitAll(visitNode(ent, Head(elems)), Tail(elems))


\* --------------------------------------------------------------- validator

sHttp == <<"h", "t", "t", "p">>

\* An error of Validate: the page's fullname, the message of the format
\* string, and the values the format string is given.
Err(t, entity, kind, href, target, n) ==
  [page |-> t[entity].fullname, kind |-> kind, href |-> href,
   target |-> target, n |-> n]

\* What ping returns: a transport error, or the status of the response.
PingOutcomes ==
  {[err |-> TRUE, status |-> 0], [err |-> FALSE, status |-> 200],
   [err |-> FALSE, status |-> 404]}

\* The test for a website URL, with a URL that holds a "#" taken for a path.
isExternalMutNoHash(href) == HasPrefix(href, sHttp) /\ LastIndex(href, "#") < 0

\* The test for a website URL.
isExternal(href) == HasPrefix(href, sHttp)

\* The resolution of the path part, always from the root.
resolveTargetMutRoot(t, entity, path) == isPathValid(t, Root, splitPath(path))

\* The resolution of the path part: from the root when it starts with "/",
\* from the page's parent directory otherwise.
resolveTarget(t, entity, path) ==
  IF HasPrefix(path, <<"/">>)
  THEN isPathValid(t, Root, splitPath(path))
  ELSE isPathValid(t, t[entity].parent, splitPath(path))

\* The fragment looked up in the ids of the referencing page.
fragmentIdsMutOwn(t, entity, targetEnt) == t[entity].ids

\* The ids the fragment of a path with fragment is looked up in.
fragmentIds(t, entity, targetEnt) == t[targetEnt].ids

\* One round of the loop over entity.hrefs: the errors it appends and the
\* URLs it pings; pong is what ping returns if the round calls it.
checkHref(t, entity, raw, pong) ==
  LET href == ReplaceBackslash(TrimSpace(raw))
      none == [errs |-> <<>>, pings |-> <<>>]
      one(e) == [errs |-> <<e>>, pings |-> <<>>]
  IN  IF isExternal(href)
      THEN [pings |-> <<href>>,
            errs |->
              IF pong.err
              THEN <<Err(t, entity, "encountered error when pinging",
                         href, <<>>, 0)>>
              ELSE IF pong.status # 200
                   THEN <<Err(t, entity, "encountered status code when pinging",
                              href, <<>>, pong.status)>>
                   ELSE <<>>]
      ELSE IF href = <<"#">>
      THEN one(Err(t, entity, "incomplete target '#'", <<>>, <<>>, 0))
      ELSE IF href = <<"/">>
      THEN none
      ELSE LET hashIndex == LastIndex(href, "#")
           IN  IF hashIndex = 0
               THEN LET target == SliceFrom(href, 1)
                    IN  IF target \notin DOMAIN t[entity].ids
                        THEN one(Err(t, entity, "broken same page link",
                                     href, <<>>, 0))
                        ELSE none
               ELSE LET target == IF hashIndex > 0
                                  THEN TrimSpace(SliceFrom(href, hashIndex + 1))
                                  ELSE <<>>
                        path == IF hashIndex > 0
                                THEN TrimSpace(SliceTo(href, hashIndex))
                                ELSE href
                        abs == HasPrefix(path, <<"/">>)
                        targetEnt == resolveTarget(t, entity, path)
                    IN  IF targetEnt = Nil
                        THEN one(Err(t, entity,
                                     IF abs THEN "broken link"
                                     ELSE "broken relative link",
                                     path, <<>>, 0))
                        ELSE IF hashIndex > 0
                                /\ target \notin
                                     DOMAIN fragmentIds(t, entity, targetEnt)
                             THEN one(Err(t, entity, "broken target link",
                                          path, target, 0))
                             ELSE none

RECURSIVE SeqToBag(_)
SeqToBag(q) ==
  IF q = <<>> THEN EmptyBag ELSE SetToBag({Head(q)}) (+) SeqToBag(Tail(q))

\* The sum of the bags b of a set of records (tagged, so that equal bags of
\* two children both count).
RECURSIVE BagSum(_)
BagSum(S) ==
  IF S = {} THEN EmptyBag
  ELSE LET x == CHOOSE y \in S : TRUE IN x.b (+) BagSum(S \ {x})

\* The answer of ping to round idx of entity's loop.
Pong(po, entity, idx) ==
  IF <<entity, idx>> \in DOMAIN po THEN po[<<entity, idx>>]
  ELSE [err |-> TRUE, status |-> 0]

\* The rounds of the loop over the hrefs of a page.
pageIters(t, entity, po) ==
  {[ent |-> entity, idx |-> i, raw |-> t[entity].hrefs[i],
    pong |-> Pong(po, entity, i),
    out |-> checkHref(t, entity, t[entity].hrefs[i], Pong(po, entity, i))] :
     i \in 1..Len(t[entity].hrefs)}

\* The errors of the loop over the ids of a page.
idErrors(t, entity) ==
  SetToBag({Err(t, entity, "id appears more than once", id, <<>>,
                t[entity].ids[id]) :
             id \in {i \in DOMAIN t[entity].ids : t[entity].ids[i] > 1}})

\* The rounds validate runs below entity. The children of a directory are
\* visited in the order of a Go map, which is unspecified: the model keeps
\* the set of rounds and the bag of errors, which every order agrees on.
RECURSIVE validateIters(_, _, _)
validateIters(t, entity, po) ==
  IF t[entity].directory
  THEN UNION {validateIters(t, t[entity].children[c], po) :
                c \in DOMAIN t[entity].children}
  ELSE pageIters(t, entity, po)

RECURSIVE validate(_, _, _)
validate(t, entity, po) ==
  IF t[entity].directory
  THEN BagSum({[c |-> c, b |-> validate(t, t[entity].children[c], po)] :
                 c \in DOMAIN t[entity].children})
  ELSE idErrors(t, entity)
       (+) BagSum({[c |-> r.idx, b |-> SeqToBag(r.out.errs)] :
                     r \in pageIters(t, entity, po)})

\* ------------------------------------------------------------------ inputs

sBlog == <<"b", "l", "o", "g">>

sSecondPost ==
  <<"s", "e", "c", "o", "n", "d", "-", "p", "o", "s", "t", ".", "h", "t", "m", "l">>

sX == <<"x">>

sA == <<"a">>

sY == <<"y">>

Attrs1(a, v) == (a :> v)

Attrs2(a, v, b, w) == (a :> v) @@ (b :> w)

Parsed(elems) == [ok |-> TRUE, elems |-> elems]

\* A reader goquery cannot read.
ParseError == [ok |-> FALSE, elems |-> <<>>]

\* blog/index.html of the test data, with the references the validator
\* tells apart: relative, same page, absolute with fragment, external,
\* and the entries of a srcset.
docLinks ==
  Parsed(<<
    Elem("a", Attrs2("href", <<".", ".", "/">> \o sBlog \o <<"/">> \o sSecondPost,
                     "id", sX)),
    Elem("A", Attrs1("href", <<" ", "#", "x", " ">>)),
    Elem("a", Attrs1("href", <<"#", "y">>)),
    Elem("link", Attrs1("href", <<"/">> \o sBlog \o <<"/">> \o sSecondPost
                                \o <<"#", "x">>)),
    Elem("img", Attrs2("src", sHttp \o <<"#", "x">>,
                       "srcset", sSecondPost \o <<"#", "y", " ", "2", "x", ",">>
                                 \o <<".", ".", "\\">> \o sBlog
                                 \o <<"/", "#", "x">>))
  >>)

\* A page whose id y appears twice.
docTarget ==
  Parsed(<<
    Elem("div", Attrs1("id", sY)),
    Elem("p", Attrs1("id", sY)),
    Elem("a", Attrs1("href", <<"#", "x", "#", "y">>)),
    Elem("a", Attrs1("href", <<"#">>)),
    Elem("script", Attrs1("src", <<"/">>)),
    Elem("a", Attrs1("href", sHttp \o <<"s", ":", "/", "/", "e">>))
  >>)

\* A small page: a link to a directory and a link to the parent directory.
docSmall ==
  Parsed(<<
    Elem("source", Attrs2("src", <<"/">> \o sBlog, "id", sX)),
    Elem("span", EmptyMap),
    Elem("a", Attrs1("href", sDotDot)),
    Elem("a", Attrs1("href", <<"#", "x">>)),
    Elem("link", Attrs1("href", sA))
  >>)

Names ==
  {sBlog \o <<"/">> \o sIndexHtml,
   <<"/">> \o sBlog \o <<"/">> \o sSecondPost}

Readers == {docLinks, docTarget, ParseError}

\* The names and readers of the specification of the tree alone: names with
\* empty segments, index files, a name below another and a ".." segment.
TreeNames ==
  {sA, <<"/">> \o sA, sA \o <<"/", "b">>, sA \o <<"/", "/", "b">>,
   sA \o <<"/">>, sIndexHtml, sIndexHtm, sIndexTmpl,
   sA \o <<"/">> \o sDotDot}

TreeReaders == {docSmall, ParseError}

\* ----------------------------------------------------------------- actions

NoResult == [errors |-> EmptyBag, iters |-> {}]

\* What AddDocumentFromReader does to tree t: the tree after it, the error
\* returned and the entity newFSEntity returned.
addDocumentFromReader(t, name0, reader) ==
  LET name == prepareFileName(name0)
      r == newFSEntity(t, name)
  IN  IF r.ent = Nil
      THEN [t |-> r.t, name |-> name, err |-> TRUE, ent |-> Nil]
      ELSE IF ~reader.ok
           THEN [t |-> r.t, name |-> name, err |-> TRUE, ent |-> r.ent]
           ELSE [t |-> [r.t EXCEPT ![r.ent] = visitAll(@, reader.elems)],
                 name |-> name, err |-> FALSE, ent |-> r.ent]

\* The guard that keeps the model finite.
Small(t) == \A e \in DOMAIN t : Len(t[e].hrefs) <= MaxHrefs

Record(op, r) ==
  /\ Small(r.t)
  /\ tree' = r.t
  /\ prev' = tree
  /\ last' = [op |-> op, name |-> r.name, err |-> r.err, ent |-> r.ent,
              again |-> r.name \in DOMAIN registered]
  /\ registered' = IF r.err THEN registered ELSE (r.name :> r.ent) @@ registered
  /\ result' = NoResult

AddFile(name0) ==
  LET name == prepareFileName(name0)
      r == newFSEntity(tree, name)
  IN  Record("AddFile",
             [t |-> r.t, name |-> name, err |-> r.ent = Nil, ent |-> r.ent])

AddDocumentFromReader(name, reader) ==
  Record("AddDocumentFromReader", addDocumentFromReader(tree, name, reader))

\* opened: whether os.Open finds the file.
AddDocument(name0, opened, reader) ==
  LET name == prepareFileName(name0)
  IN  IF ~opened
      THEN Record("AddDocument",
                  [t |-> tree, name |-> name, err |-> TRUE, ent |-> Nil])
      ELSE Record("AddDocument", addDocumentFromReader(tree, name, reader))

\* The rounds of Validate that call ping.
PingRounds(t) ==
  {<<e, i>> \in {<<e, i>> \in (DOMAIN t) \X (1..MaxHrefs) :
                   ~t[e].directory /\ i <= Len(t[e].hrefs)} :
     checkHref(t, e, t[e].hrefs[i], [err |-> TRUE, status |-> 0]).pings # <<>>}

\* po: what ping answers in each round that calls it.
Validate(po) ==
  /\ result' = [errors |-> validate(tree, Root, po),
                iters |-> validateIters(tree, Root, po)]
  /\ last' = [op |-> "Validate", name |-> <<>>, err |-> FALSE, ent |-> Nil,
              again |-> FALSE]
  /\ prev' = tree
  /\ UNCHANGED <<tree, registered>>

Init ==
  /\ tree = New
  /\ prev = New
  /\ last = [op |-> "New", name |-> <<>>, err |-> FALSE, ent |-> Root,
             again |-> FALSE]
  /\ registered = EmptyMap
  /\ result = NoResult

Next ==
  \/ \E name \in Names : AddFile(name)
  \/ \E name \in Names, reader \in Readers : AddDocumentFromReader(name, reader)
  \/ \E name \in Names, opened \in BOOLEAN, reader \in Readers :
       AddDocument(name, opened, reader)
  \/ \E po \in [PingRounds(tree) -> PingOutcomes] : Validate(po)

Spec == Init /\ [][Next]_vars

\* The registrations alone, over more names.
NextTree ==
  \/ \E name \in TreeNames : AddFile(name) /\ Len(tree') <= MaxEntities
  \/ \E name \in TreeNames, reader \in TreeReaders :
       AddDocumentFromReader(name, reader) /\ Len(tree') <= MaxEntities

SpecTree == Init /\ [][NextTree]_vars

\* ------------------------------------------------------------------ claims

Registration == {"AddFile", "AddDocumentFromReader", "AddDocument"}

\* The entity the segments lead to from entity e by child links alone, Nil
\* when a segment is no child.
RECURSIVE Descend(_, _, _)
Descend(t, e, segments) ==
  IF segments = <<>> THEN e
  ELSE IF Head(segments) \in DOMAIN t[e].children
       THEN Descend(t, t[e].children[Head(segments)], Tail(segments))
       ELSE Nil

IsPrefix(p, q) == Len(p) <= Len(q) /\ SubSeq(q, 1, Len(p)) = p

\* A proper prefix of the segments of name leads to a leaf of t.
ThroughLeaf(t, name) ==
  LET segments == Split(name, "/")
  IN  \E k \in 1..(Len(segments) - 1) :
        LET e == Descend(t, Root, SubSeq(segments, 1, k))
        IN  e # Nil /\ ~t[e].directory

\* C1: registering a path that was registered successfully before returns
\* an error and leaves the tree as it was.
C1_DuplicateFails ==
  (last.op \in {"AddFile", "AddDocumentFromReader"} /\ last.again)
    => (last.err /\ tree = prev)

\* C2: with no registered path a prefix of another, every registered path
\* resolves from the root to the entity its registration returned.
C2_RoundTrip ==
  (\A p, q \in DOMAIN registered :
     p # q => ~IsPrefix(splitPath(p), splitPath(q)))
    => \A p \in DOMAIN registered :
         isPathValid(tree, Root, splitPath(p)) = registered[p]

\* C3: a leaf has no children, an entity that was a leaf before an
\* operation is a leaf after it, and a registration through a leaf returns
\* an error and leaves the tree as it was.
C3_LeafNeverGainsChildren ==
  /\ \A e \in DOMAIN tree :
       ~tree[e].directory => DOMAIN tree[e].children = {}
  /\ \A e \in DOMAIN prev :
       ~prev[e].directory => e \in DOMAIN tree /\ ~tree[e].directory
  /\ (last.op \in Registration /\ ThroughLeaf(prev, last.name))
       => (last.err /\ tree = prev)

C3_Witness ==
  /\ last.op \in {"AddFile", "AddDocumentFromReader"}
  /\ ThroughLeaf(prev, last.name)
  /\ last.err
  /\ Len(tree) > 1

\* C4: a path that ends at a directory resolves iff the directory has a
\* child named index.html, index.htm or index.tmpl, to the first of them in
\* that order; a path that ends at a leaf resolves to the leaf.
C4_DirectoryIndex ==
  \A e \in DOMAIN tree :
    LET kids == tree[e].children
        r == isPathValid(tree, e, <<>>)
    IN  /\ tree[e].directory =>
             /\ (r # Nil) <=> (\E i \in 1..3 : IndexNames[i] \in DOMAIN kids)
             /\ sIndexHtml \in DOMAIN kids => r = kids[sIndexHtml]
             /\ (sIndexHtml \notin DOMAIN kids /\ sIndexHtm \in DOMAIN kids)
                  => r = kids[sIndexHtm]
             /\ (sIndexHtml \notin DOMAIN kids /\ sIndexHtm \notin DOMAIN kids
                 /\ sIndexTmpl \in DOMAIN kids)
                  => r = kids[sIndexTmpl]
        /\ ~tree[e].directory => r = e
        /\ \A c \in DOMAIN kids \ {sDotDot} :
             isPathValid(tree, e, <<c>>) = isPathValid(tree, kids[c], <<>>)

\* A directory holds index.htm, registered first, and index.html, and
\* resolves to index.html.
C4_Witness ==
  \E e \in DOMAIN tree :
    /\ tree[e].directory
    /\ {sIndexHtml, sIndexHtm} \subseteq DOMAIN tree[e].children
    /\ tree[e].children[sIndexHtm] < tree[e].children[sIndexHtml]
    /\ isPathValid(tree, e, <<>>) = tree[e].children[sIndexHtml]

\* The components that may follow a "..".
Rests ==
  LET segs == {sA, <<"b">>, sDotDot, sIndexHtml, sIndexHtm}
  IN  {<<>>} \cup {<<x>> : x \in segs} \cup {<<x, y>> : x, y \in segs}

\* C5 as stated: ".." from an entity resolves to exactly its parent, and
\* ".." from the root fails.
C5_ParentExactly ==
  /\ \A c \in DOMAIN tree \ {Root} :
       isPathValid(tree, c, <<sDotDot>>) = tree[c].parent
  /\ \A rest \in Rests : isPathValid(tree, Root, <<sDotDot>> \o rest) = Nil

\* C5 as amended: ".." followed by rest resolves from an entity to what
\* rest resolves to from its parent (for ".." alone, the index file of the
\* parent directory, or nothing), and ".." from the root fails whatever
\* follows.
C5_ParentTraversal ==
  /\ \A c \in DOMAIN tree \ {Root} : \A rest \in Rests :
       /\ isPathValid(tree, c, <<sDotDot>> \o rest)
            = isPathValid(tree, tree[c].parent, rest)
       /\ isPathValid(tree, c, <<sDotDot>>)
            = firstIndex(tree[tree[c].parent].children, IndexNames)
  /\ \A rest \in Rests : isPathValid(tree, Root, <<sDotDot>> \o rest) = Nil

\* ".." from an entity resolves, to the index file of its parent, and the
\* root holds an index file but ".." from it fails.
C5_Witness ==
  /\ last.op \in Registration
  /\ \E c \in DOMAIN tree \ {Root} :
       /\ isPathValid(tree, c, <<sDotDot>>) # Nil
       /\ isPathValid(tree, c, <<sDotDot>>) # tree[c].parent
  /\ isPathValid(tree, Root, <<>>) # Nil
  /\ isPathValid(tree, Root, <<sDotDot>>) = Nil

\* C10: no entity but the root has the empty name, and registered paths
\* that differ only in empty segments are the same entity.
C10_NoEmptySegment ==
  /\ \A e \in DOMAIN tree \ {Root} : tree[e].name # <<>>
  /\ \A p, q \in DOMAIN registered :
       splitPath(p) = splitPath(q) => registered[p] = registered[q]

\* A reference as the validator looks at it: trimmed, with "/" for "\".
San(raw) == ReplaceBackslash(TrimSpace(raw))

Validated == last.op = "Validate"

\* The error of a page with the given message and values.
PageErr(e, kind, href, target, n) ==
  [page |-> tree[e].fullname, kind |-> kind, href |-> href,
   target |-> target, n |-> n]

\* What a path part resolves to for page e: from the root when it starts
\* with "/", from the parent directory of e otherwise.
Resolves(e, path) ==
  isPathValid(tree,
              IF path # <<>> /\ path[1] = "/" THEN Root ELSE tree[e].parent,
              splitPath(path))

\* C6: a reference "#id" with a non-empty id yields no error when id is an
\* id of the page itself, and one "broken same page link" error otherwise.
C6_SamePageFragment ==
  Validated =>
    \A r \in result.iters :
      LET h == San(r.raw)
      IN  (Len(h) >= 2 /\ h[1] = "#") =>
            r.out.errs =
              IF Tail(h) \in DOMAIN tree[r.ent].ids THEN <<>>
              ELSE <<PageErr(r.ent, "broken same page link", h, <<>>, 0)>>

\* C7: a reference that is not external and whose "#" (the last one) is at
\* a position > 0 is split there; it yields no error iff the path part
\* resolves to an entity that has the fragment among its ids, one "broken
\* target link" error when the path part resolves and the fragment is not
\* among the ids of that entity, and the broken-link error alone when the
\* path part does not resolve.
C7_PathWithFragment ==
  Validated =>
    \A r \in result.iters :
      LET h == San(r.raw)
          k == LastIndex(h, "#")
      IN  (~HasPrefix(h, sHttp) /\ k > 0) =>
            LET path == TrimSpace(SliceTo(h, k))
                frag == TrimSpace(SliceFrom(h, k + 1))
                T == Resolves(r.ent, path)
            IN  IF T = Nil
                THEN /\ Len(r.out.errs) = 1
                     /\ r.out.errs[1].kind
                          \in {"broken link", "broken relative link"}
                ELSE r.out.errs =
                       IF frag \in DOMAIN tree[T].ids THEN <<>>
                       ELSE <<PageErr(r.ent, "broken target link",
                                      path, frag, 0)>>

\* The fragment is an id of the referencing page and not of the page the
\* path part resolves to, and the reference yields the target error.
C7_Witness ==
  /\ Validated
  /\ \E r \in result.iters :
       LET h == San(r.raw)
           k == LastIndex(h, "#")
           path == TrimSpace(SliceTo(h, k))
           frag == TrimSpace(SliceFrom(h, k + 1))
       IN  /\ k > 0
           /\ Resolves(r.ent, path) \notin {Nil, r.ent}
           /\ frag \in DOMAIN tree[r.ent].ids
           /\ frag \notin DOMAIN tree[Resolves(r.ent, path)].ids
           /\ r.out.errs =
                <<PageErr(r.ent, "broken target link", path, frag, 0)>>

\* C8: a path part that is not "/" is resolved from the root when it
\* starts with "/" and from the parent directory of the page otherwise; a
\* failure yields exactly one error, "broken link" for the first and
\* "broken relative link" for the second, and a success yields neither.
C8_AbsoluteRelative ==
  Validated =>
    \A r \in result.iters :
      LET h == San(r.raw)
          k == LastIndex(h, "#")
          path == IF k > 0 THEN TrimSpace(SliceTo(h, k)) ELSE h
          abs == path # <<>> /\ path[1] = "/"
      IN  (~HasPrefix(h, sHttp) /\ h # <<"#">> /\ h # <<"/">> /\ k # 0
           /\ path # <<"/">>) =>
            IF isPathValid(tree, IF abs THEN Root ELSE tree[r.ent].parent,
                           splitPath(path)) = Nil
            THEN r.out.errs =
                   <<PageErr(r.ent,
                             IF abs THEN "broken link"
                             ELSE "broken relative link", path, <<>>, 0)>>
            ELSE /\ \A i \in 1..Len(r.out.errs) :
                      r.out.errs[i].kind
                        \notin {"broken link", "broken relative link"}
                 /\ k < 0 => r.out.errs = <<>>

\* blog/index.html refers to ../blog/second-post.html, which is not
\* registered: Validate returns the error of the example, once.
C8_Witness ==
  LET page == sBlog \o <<"/">> \o sIndexHtml
      href == sDotDot \o <<"/">> \o sBlog \o <<"/">> \o sSecondPost
      e == [page |-> page, kind |-> "broken relative link", href |-> href,
            target |-> <<>>, n |-> 0]
  IN  /\ Validated
      /\ \E r \in result.iters :
           tree[r.ent].fullname = page /\ r.raw = href /\ r.out.errs = <<e>>
      /\ CopiesIn(e, result.errors) = 1
      /\ \A x \in DOMAIN tree : tree[x].name # sSecondPost

\* C9: a reference that begins with "http" is pinged once and yields no
\* error when the status is 200, one status error when it is another
\* status and one ping error when ping fails, whatever else it holds.
C9_External ==
  Validated =>
    \A r \in result.iters :
      LET h == San(r.raw)
      IN  HasPrefix(h, sHttp) =>
            /\ r.out.pings = <<h>>
            /\ r.out.errs =
                 IF r.pong.err
                 THEN <<PageErr(r.ent, "encountered error when pinging",
                                h, <<>>, 0)>>
                 ELSE IF r.pong.status = 200 THEN <<>>
                      ELSE <<PageErr(r.ent,
                                     "encountered status code when pinging",
                                     h, <<>>, r.pong.status)>>

\* The reference http#x is answered 404 and yields the status error.
C9_Witness ==
  /\ Validated
  /\ \E r \in result.iters :
       /\ San(r.raw) = sHttp \o <<"#", "x">>
       /\ ~r.pong.err /\ r.pong.status = 404
       /\ r.out.pings = <<San(r.raw)>>
       /\ Len(r.out.errs) = 1
       /\ r.out.errs[1].kind = "encountered status code when pinging"
       /\ r.out.errs[1].n = 404

====
